---------------------------- MODULE Spec2Model ----------------------------
(***************************************************************************)
(* A model of ai_lead_generator.py: the lead source adapter                *)
(* (generate_leads_from_api), the lead store (the leads table of leads.db, *)
(* save_leads_to_db, get_leads_from_db, the UPDATE of send_automated_emails*)
(* and the DELETE of the "Clear All Leads" button) and the campaign runner *)
(* (send_automated_emails as called by the "Send Campaign" button).        *)
(*                                                                         *)
(* Text is a sequence of one-character strings, so that title(), lower(),  *)
(* replace() and slicing are computed character by character.              *)
(*                                                                         *)
(* Time: successive datetime.now() readings are taken to be distinct and   *)
(* increasing, so generated_date is the number of readings made before it; *)
(* of the time a campaign takes only the seconds spent in time.sleep are   *)
(* counted, everything else being as fast as it may be.                    *)
(***************************************************************************)
EXTENDS Integers, Sequences, FiniteSets, Bags, TLC

VARIABLES
    request,     \* the arguments of the generate_leads_from_api call under study
    reply,       \* what that call returned, and whether requests.get was attempted
    leads_db,    \* the rows of table leads, in id order
    next_id,     \* the id AUTOINCREMENT gives the next inserted row
    clock,       \* number of datetime.now() readings so far (a logical timestamp)
    elapsed,     \* seconds spent in time.sleep since the campaign began
    pc,          \* where the Send Campaign handler is: "idle", "sending", "done"
    batch,       \* unsent_leads, the rows handed to send_automated_emails
    pos,         \* number of leads of the batch the for loop has processed
    sent_count,  \* sent_count of send_automated_emails
    attempts,    \* one entry per processed lead: its id, email, outcome and time
    delivered    \* the rows whose send succeeded since the table was last cleared

vars == <<request, reply, leads_db, next_id, clock, elapsed, pc, batch, pos,
          sent_count, attempts, delivered>>

genVars == <<request, reply>>

storeVars == <<leads_db, next_id, clock, elapsed, pc, batch, pos, sent_count,
               attempts, delivered>>

---------------------------------------------------------------------------
(* Bounds of the model. *)

\* largest count passed to generate_leads_from_api when the function is studied
MaxCount == 12

\* largest number of records in a Hunter response
MaxExt == 2

\* largest count the Generate Leads button passes in the store machine (the
\* slider offers 10 to 100; the store machine runs the same code on smaller
\* counts)
MaxLeadCount == 2

\* largest number of records in a Hunter response in the store machine
MaxLeadExt == 1

\* largest reading of the clock: bounds the leads ever created, and so the
\* rows of the table and the ids handed out
MaxClock == 3

---------------------------------------------------------------------------
(* Program constants. *)

\* domain[:15]
SlugLen == 15

\* time.sleep(1)
RateLimitDelay == 1

\* get_leads_from_db(50)
ListLimit == 50

\* [...][:10]  # Limit for demo
BatchLimit == 10

---------------------------------------------------------------------------
(* Text. *)

Min(a, b) == IF a <= b THEN a ELSE b

UpperCase ==
    <<"A", "B", "C", "D", "E", "F", "G", "H", "I", "J", "K", "L", "M",
      "N", "O", "P", "Q", "R", "S", "T", "U", "V", "W", "X", "Y", "Z">>

LowerCase ==
    <<"a", "b", "c", "d", "e", "f", "g", "h", "i", "j", "k", "l", "m",
      "n", "o", "p", "q", "r", "s", "t", "u", "v", "w", "x", "y", "z">>

DigitChars == <<"0", "1", "2", "3", "4", "5", "6", "7", "8", "9">>

\* the lower-case letter of each upper-case letter, and the converse
LowerOf ==
    [c \in {UpperCase[i] : i \in 1..Len(UpperCase)} |->
        LowerCase[CHOOSE i \in 1..Len(UpperCase) : UpperCase[i] = c]]

UpperOf ==
    [c \in {LowerCase[i] : i \in 1..Len(LowerCase)} |->
        UpperCase[CHOOSE i \in 1..Len(LowerCase) : LowerCase[i] = c]]

IsUpper(c) == c \in DOMAIN LowerOf

IsLower(c) == c \in DOMAIN UpperOf

IsCased(c) == IsUpper(c) \/ IsLower(c)

ToLower(c) == IF IsUpper(c) THEN LowerOf[c] ELSE c

ToUpper(c) == IF IsLower(c) THEN UpperOf[c] ELSE c

\* str.lower()
lower(s) == [i \in 1..Len(s) |-> ToLower(s[i])]

\* str.title(): a cased character is upper-cased when it follows an uncased
\* character (or starts the text) and lower-cased otherwise
title(s) ==
    [i \in 1..Len(s) |->
        IF i = 1 \/ ~IsCased(s[i - 1]) THEN ToUpper(s[i]) ELSE ToLower(s[i])]

\* str.replace(ch, '')
remove(s, ch) == SelectSeq(s, LAMBDA c : c # ch)

\* s[:n] for n >= 0
prefix(s, n) == SubSeq(s, 1, Min(n, Len(s)))

\* the decimal digits of n >= 0, as str(n) writes them
RECURSIVE str(_)
str(n) ==
    IF n < 10 THEN <<DigitChars[n + 1]>>
    ELSE str(n \div 10) \o <<DigitChars[(n % 10) + 1]>>

\* f"{n:04d}" for n >= 0
RECURSIVE zfill(_, _)
zfill(s, w) == IF Len(s) >= w THEN s ELSE zfill(<<"0">> \o s, w)

---------------------------------------------------------------------------
(* The values the user interface and the external service supply. *)

Technology == <<"T", "e", "c", "h", "n", "o", "l", "o", "g", "y">>
Healthcare == <<"H", "e", "a", "l", "t", "h", "c", "a", "r", "e">>
Finance == <<"F", "i", "n", "a", "n", "c", "e">>
RealEstate == <<"R", "e", "a", "l", " ", "E", "s", "t", "a", "t", "e">>
Marketing == <<"M", "a", "r", "k", "e", "t", "i", "n", "g">>
Ecommerce == <<"E", "-", "c", "o", "m", "m", "e", "r", "c", "e">>
Manufacturing ==
    <<"M", "a", "n", "u", "f", "a", "c", "t", "u", "r", "i", "n", "g">>
Education == <<"E", "d", "u", "c", "a", "t", "i", "o", "n">>

\* the options of the "Target Industry" select box
UIIndustries ==
    {Technology, Healthcare, Finance, RealEstate, Marketing, Ecommerce,
     Manufacturing, Education}

\* industry strings a caller other than the select box can pass
Telecommunications ==
    <<"T", "e", "l", "e", "c", "o", "m", "m", "u", "n", "i", "c", "a", "t",
      "i", "o", "n", "s">>
Pharmaceuticals ==
    <<"P", "h", "a", "r", "m", "a", "c", "e", "u", "t", "i", "c", "a", "l", "s">>
EliteEliteElit ==
    <<"e", "l", "i", "t", "e", "e", "l", "i", "t", "e", "e", "l", "i", "t">>

OtherIndustries == {Telecommunications, Pharmaceuticals, EliteEliteElit}

Industries == UIIndustries \cup OtherIndustries

Locations == {"New York", "Austin"}

\* entries of data['data']['emails'] in a Hunter response
ExtRecords ==
    { [organization |-> <<"A", "c", "m", "e">>, value |-> <<"a", "@", "x">>,
       first_name |-> <<"J", "o">>, last_name |-> <<"D", "o", "e">>],
      [organization |-> <<>>, value |-> <<"b", "@", "x">>,
       first_name |-> <<>>, last_name |-> <<>>] }

RECURSIVE SeqsUpTo(_, _)
SeqsUpTo(S, n) ==
    IF n = 0 THEN {<<>>}
    ELSE LET shorter == SeqsUpTo(S, n - 1)
         IN  shorter \cup {Append(s, x) : s \in shorter, x \in S}

\* What the environment does to the Hunter lookup of one call:
\*   no_key           st.secrets holds no hunter_api_key
\*   transport_error  requests.get raises
\*   non_200          the response's status_code is not 200
\*   parse_error      response.json() raises
\*   ok               a 200 response with the records `emails`; `bad` is the
\*                    index of the first record whose mapping raises (a null
\*                    first_name or last_name), 0 when none does
ApiOutcomes(n) ==
    { [kind |-> k, emails |-> <<>>, bad |-> 0] :
        k \in {"no_key", "transport_error", "non_200", "parse_error"} }
    \cup
    { [kind |-> "ok", emails |-> p[1], bad |-> p[2]] :
        p \in { q \in SeqsUpTo(ExtRecords, n) \X (0..n) : q[2] <= Len(q[1]) } }

---------------------------------------------------------------------------
(* generate_leads_from_api. *)

\* the roster of company names synthetic leads are drawn from
companies(industry) ==
    LET T == title(industry)
    IN  << T \o <<" ", "S", "o", "l", "u", "t", "i", "o", "n", "s", " ", "I", "n", "c">>,
           <<"P", "r", "e", "m", "i", "e", "r", " ">> \o T \o <<" ", "G", "r", "o", "u", "p">>,
           T \o <<" ", "P", "r", "o", " ", "S", "e", "r", "v", "i", "c", "e", "s">>,
           <<"E", "l", "i", "t", "e", " ">> \o T \o <<" ", "C", "o">>,
           <<"A", "d", "v", "a", "n", "c", "e", "d", " ">> \o T
               \o <<" ", "S", "y", "s", "t", "e", "m", "s">>,
           T \o <<" ", "E", "x", "c", "e", "l", "l", "e", "n", "c", "e", " ", "L", "t", "d">>,
           <<"D", "y", "n", "a", "m", "i", "c", " ">> \o T
               \o <<" ", "S", "o", "l", "u", "t", "i", "o", "n", "s">>,
           <<"N", "e", "x", "t", " ", "G", "e", "n", " ">> \o T,
           <<"S", "m", "a", "r", "t", " ">> \o T
               \o <<" ", "S", "o", "l", "u", "t", "i", "o", "n", "s">>,
           <<"G", "l", "o", "b", "a", "l", " ">> \o T
               \o <<" ", "P", "a", "r", "t", "n", "e", "r", "s">> >>

\* company.lower().replace(' ', '').replace('.', '').replace(',', '')
domain(company) == remove(remove(remove(lower(company), " "), "."), ",")

\* a faulty variant of slug: the slug is cut after ten characters
slug_of_ten(d) == prefix(d, 10)

\* domain[:15]
slug(d) == prefix(d, SlugLen)

\* the lead appended for the i-th roster entry (i counts from 0), created when
\* the clock reads t
SyntheticLead(company, i, industry, location, t) ==
    [ company_name   |-> company,
      email          |-> <<"i", "n", "f", "o", "@">>
                            \o slug(domain(company))
                            \o <<".", "c", "o", "m">>,
      contact_person |-> <<"C", "o", "n", "t", "a", "c", "t", " ",
                           "P", "e", "r", "s", "o", "n", " ">> \o str(i + 1),
      website        |-> <<"h", "t", "t", "p", "s", ":", "/", "/", "w", "w", "w", ".">>
                            \o slug(domain(company))
                            \o <<".", "c", "o", "m">>,
      industry       |-> industry,
      location       |-> location,
      phone          |-> <<"+", "1", "-", "5", "5", "5", "-">>
                            \o zfill(str(1000 + i), 4),
      generated_date |-> t ]

\* the lead appended for one entry of the Hunter response
ExternalLead(email_data, industry, location, t) ==
    [ company_name   |-> email_data.organization,
      email          |-> email_data.value,
      contact_person |-> email_data.first_name \o <<" ">> \o email_data.last_name,
      website        |-> <<"h", "t", "t", "p", "s", ":", "/", "/">>
                            \o industry \o <<".", "c", "o", "m">>,
      industry       |-> industry,
      location       |-> location,
      phone          |-> <<>>,
      generated_date |-> t ]

\* the body of the try block: the leads appended before it ended, whether
\* requests.get was called, and whether the block ended by an exception
HunterLookup(industry, location, api, t) ==
    IF api.kind = "no_key"
    THEN [leads |-> <<>>, called |-> FALSE, error |-> FALSE]
    ELSE IF api.kind = "transport_error"
    THEN [leads |-> <<>>, called |-> TRUE, error |-> TRUE]
    ELSE IF api.kind = "non_200"
    THEN [leads |-> <<>>, called |-> TRUE, error |-> FALSE]
    ELSE IF api.kind = "parse_error"
    THEN [leads |-> <<>>, called |-> TRUE, error |-> TRUE]
    ELSE LET n == IF api.bad = 0 THEN Len(api.emails) ELSE api.bad - 1
         IN  [leads  |-> [k \in 1..n |->
                            ExternalLead(api.emails[k], industry, location,
                                         t + k - 1)],
              called |-> TRUE,
              error  |-> api.bad # 0]

\* a faulty variant of Propagates: the handler re-raises
Reraised(error) == error

\* except Exception as e: st.error(...): nothing leaves the handler
Propagates(error) == FALSE

\* a faulty variant of NeedsSynthetic: the roster is used only when Hunter
\* gave nothing
NoLeadsAtAll(leads, count) == Len(leads) = 0

\* if len(leads) < count
NeedsSynthetic(leads, count) == Len(leads) < count

\* for i, company in enumerate(companies[:count]), from index i on
RECURSIVE SyntheticLoop(_, _, _, _, _, _, _)
SyntheticLoop(leads, roster, i, count, industry, location, t) ==
    IF i >= Len(roster) \/ Len(leads) >= count
    THEN leads
    ELSE SyntheticLoop(
             Append(leads,
                    SyntheticLead(roster[i + 1], i, industry, location,
                                  t + Len(leads))),
             roster, i + 1, count, industry, location, t)

\* a faulty variant of Truncate: every collected lead is returned
Untruncated(leads, count) == leads

\* return leads[:count]
Truncate(leads, count) == prefix(leads, count)

\* The call generate_leads_from_api(industry, location, count) made when the
\* clock reads t, with the environment behaving as api says.  now_reads is the
\* number of datetime.now() readings the call made.
generate_leads_from_api(industry, location, count, api, t) ==
    LET hunter == HunterLookup(industry, location, api, t)
        all    == IF NeedsSynthetic(hunter.leads, count)
                  THEN SyntheticLoop(hunter.leads,
                                     prefix(companies(industry), count), 0,
                                     count, industry, location, t)
                  ELSE hunter.leads
    IN  [ leads      |-> Truncate(all, count),
          api_called |-> hunter.called,
          diagnostic |-> hunter.error,
          raised     |-> Propagates(hunter.error),
          now_reads  |-> Len(all),
          returned   |-> TRUE ]

NoReply ==
    [ leads |-> <<>>, api_called |-> FALSE, diagnostic |-> FALSE,
      raised |-> FALSE, now_reads |-> 0, returned |-> FALSE ]

NoRequest ==
    [ industry |-> <<>>, location |-> "", count |-> 0,
      api |-> [kind |-> "no_key", emails |-> <<>>, bad |-> 0] ]

---------------------------------------------------------------------------
(* The lead store and the campaign runner: initial state. *)

StoreInit ==
    /\ leads_db = <<>>
    /\ next_id = 1
    /\ clock = 0
    /\ elapsed = 0
    /\ pc = "idle"
    /\ batch = <<>>
    /\ pos = 0
    /\ sent_count = 0
    /\ attempts = <<>>
    /\ delivered = <<>>

---------------------------------------------------------------------------
(* generate_leads_from_api studied as a function: one call per behaviour. *)

GenInit ==
    /\ request \in [ industry : Industries, location : Locations,
                     count : 0..MaxCount, api : ApiOutcomes(MaxExt) ]
    /\ reply = NoReply
    /\ StoreInit

GenerateCall ==
    /\ ~reply.returned
    /\ reply' = generate_leads_from_api(request.industry, request.location,
                                        request.count, request.api, clock)
    /\ UNCHANGED <<request, storeVars>>

GenNext == GenerateCall

SpecGen == GenInit /\ [][GenNext]_vars

---------------------------------------------------------------------------
(* Properties of generate_leads_from_api, checked under SpecGen. *)

\* the number of Hunter records turned into leads
Supplied(api) ==
    IF api.kind # "ok" THEN 0
    ELSE IF api.bad = 0 THEN Len(api.emails) ELSE api.bad - 1

\* the positions of the reply that hold synthetic leads
SyntheticPositions == (Supplied(request.api) + 1)..Len(reply.leads)

\* C3: the reply has at most count leads, exactly count when the external
\* leads plus the roster can supply count, the external leads first (in the
\* order of the response) and the synthetic leads after them in roster order.
C3_LengthAndOrder ==
    reply.returned =>
        LET n      == Len(reply.leads)
            E      == Supplied(request.api)
            roster == companies(request.industry)
        IN  /\ n <= request.count
            /\ (E + Len(roster) >= request.count => n = request.count)
            /\ \A i \in 1..n :
                   IF i <= E
                   THEN /\ reply.leads[i].email = request.api.emails[i].value
                        /\ reply.leads[i].company_name
                               = request.api.emails[i].organization
                   ELSE reply.leads[i].company_name = roster[i - E]

\* a call that needs both sources and exhausts the roster
C3_Witness ==
    /\ reply.returned
    /\ Supplied(request.api) = 2
    /\ request.count = Supplied(request.api) + Len(companies(request.industry))
    /\ Len(reply.leads) = request.count

IsAlnum(c) == IsCased(c) \/ \E i \in 1..Len(DigitChars) : DigitChars[i] = c

\* C4 as stated: for every industry string the synthetic leads of one reply
\* have pairwise distinct emails info@<slug>.com, the slug being the
\* lower-cased company name without spaces and punctuation, cut to 15
\* characters.
C4_AsStated ==
    reply.returned =>
        /\ \A i, j \in SyntheticPositions :
               i # j => reply.leads[i].email # reply.leads[j].email
        /\ \A i \in SyntheticPositions :
               reply.leads[i].email
                   = <<"i", "n", "f", "o", "@">>
                     \o prefix(SelectSeq(lower(reply.leads[i].company_name),
                                         IsAlnum), 15)
                     \o <<".", "c", "o", "m">>

\* C4 amended: for each industry of the select box the synthetic leads of one
\* reply have pairwise distinct emails info@<slug>.com, the slug being the
\* lower-cased company name without spaces, full stops and commas (any other
\* punctuation is kept), cut to 15 characters.
C4_DistinctForUIIndustries ==
    (reply.returned /\ request.industry \in UIIndustries) =>
        /\ \A i, j \in SyntheticPositions :
               i # j => reply.leads[i].email # reply.leads[j].email
        /\ \A i \in SyntheticPositions :
               reply.leads[i].email
                   = <<"i", "n", "f", "o", "@">>
                     \o prefix(SelectSeq(lower(reply.leads[i].company_name),
                                         LAMBDA c : c \notin {" ", ".", ","}),
                               15)
                     \o <<".", "c", "o", "m">>

\* the whole roster generated for the industry whose name holds a hyphen
C4_Witness ==
    /\ reply.returned
    /\ request.industry = Ecommerce
    /\ Cardinality(SyntheticPositions) = Len(companies(request.industry))
    /\ \E i \in SyntheticPositions : \E k \in 1..Len(reply.leads[i].email) :
           reply.leads[i].email[k] = "-"

\* C8: no call lets an exception of the Hunter lookup out; and when the lookup
\* fails (no key, transport error, non-200 response, unparsable response) the
\* call returns the leads it returns when no key is configured, all of them
\* synthetic.
C8_LookupFailureRecovered ==
    reply.returned =>
        /\ ~reply.raised
        /\ request.api.kind # "ok" =>
               /\ reply.leads
                      = generate_leads_from_api(
                            request.industry, request.location, request.count,
                            [kind |-> "no_key", emails |-> <<>>, bad |-> 0],
                            clock).leads
               /\ \A i \in 1..Len(reply.leads) :
                      reply.leads[i].company_name
                          = companies(request.industry)[i]

\* a transport error recovered by three synthetic leads
C8_Witness ==
    /\ reply.returned
    /\ request.api.kind = "transport_error"
    /\ reply.diagnostic
    /\ request.count = 3
    /\ Len(reply.leads) = 3

\* C9 as stated: with count = 0 the reply is empty and requests.get is never
\* attempted, with or without an API key.
C9_AsStated ==
    (reply.returned /\ request.count = 0) =>
        /\ reply.leads = <<>>
        /\ ~reply.api_called

\* C9 amended: with count = 0 the reply is empty; requests.get is attempted
\* exactly when an API key is configured.
C9_EmptyReplyLookupStillMade ==
    (reply.returned /\ request.count = 0) =>
        /\ reply.leads = <<>>
        /\ reply.api_called <=> (request.api.kind # "no_key")

\* count = 0 with a key and a response of two records
C9_Witness ==
    /\ reply.returned
    /\ request.count = 0
    /\ request.api.kind = "ok"
    /\ Supplied(request.api) = 2
    /\ reply.api_called
    /\ reply.leads = <<>>

---------------------------------------------------------------------------
(* The lead store. *)

\* the row INSERT writes for a lead: the eight listed columns, the id
\* AUTOINCREMENT assigns, and the three flags at their DEFAULT 0
NewRow(lead, id) ==
    [ id                |-> id,
      company_name      |-> lead.company_name,
      email             |-> lead.email,
      phone             |-> lead.phone,
      website           |-> lead.website,
      industry          |-> lead.industry,
      location          |-> lead.location,
      contact_person    |-> lead.contact_person,
      generated_date    |-> lead.generated_date,
      email_sent        |-> 0,
      email_opened      |-> 0,
      response_received |-> 0 ]

\* a variant of InsertOrReplace for a table whose email column is UNIQUE:
\* the conflict is resolved on email
ReplaceByEmail(table, row) ==
    SelectSeq(table, LAMBDA r : r.email # row.email) \o <<row>>

\* INSERT OR REPLACE: the rows that conflict with the new row on a uniqueness
\* constraint are deleted and the new row is inserted.  The table's only
\* uniqueness constraint is PRIMARY KEY (id).
InsertOrReplace(table, row) ==
    SelectSeq(table, LAMBDA r : r.id # row.id) \o <<row>>

\* save_leads_to_db: the table and the next id after the for loop and commit
RECURSIVE save_leads_to_db(_, _, _)
save_leads_to_db(table, id, leads) ==
    IF leads = <<>>
    THEN [table |-> table, next_id |-> id]
    ELSE save_leads_to_db(InsertOrReplace(table, NewRow(Head(leads), id)),
                          id + 1, Tail(leads))

\* ORDER BY generated_date DESC
RECURSIVE OrderByDateDesc(_)
OrderByDateDesc(rows) ==
    IF rows = <<>> THEN <<>>
    ELSE LET k == CHOOSE k \in 1..Len(rows) :
                      \A j \in 1..Len(rows) :
                          rows[j].generated_date <= rows[k].generated_date
         IN  <<rows[k]>>
             \o OrderByDateDesc(SubSeq(rows, 1, k - 1)
                                \o SubSeq(rows, k + 1, Len(rows)))

\* get_leads_from_db(limit)
get_leads_from_db(table, limit) == prefix(OrderByDateDesc(table), limit)

\* UPDATE leads SET email_sent = 1 WHERE email = ?
UpdateEmailSent(table, email) ==
    [i \in 1..Len(table) |->
        IF table[i].email = email
        THEN [table[i] EXCEPT !.email_sent = 1]
        ELSE table[i]]

\* [l for l in leads if not l.get('email_sent', 0)][:10]
unsent_leads(leads) ==
    prefix(SelectSeq(leads, LAMBDA l : l.email_sent = 0), BatchLimit)

---------------------------------------------------------------------------
(* The buttons of main() and the loop of send_automated_emails. *)

StoreIndustries == {Technology}

StoreLocations == {"New York"}

campaignVars == <<pc, batch, pos, sent_count, attempts, elapsed>>

\* "Generate Leads": generate_leads_from_api, then save_leads_to_db
GenerateLeadsClick ==
    /\ pc = "idle"
    /\ \E industry \in StoreIndustries, location \in StoreLocations,
          count \in 0..MaxLeadCount, api \in ApiOutcomes(MaxLeadExt) :
          LET r     == generate_leads_from_api(industry, location, count, api,
                                               clock)
              saved == save_leads_to_db(leads_db, next_id, r.leads)
          IN  /\ clock + r.now_reads <= MaxClock
              /\ clock' = clock + r.now_reads
              /\ leads_db' = saved.table
              /\ next_id' = saved.next_id
    /\ UNCHANGED <<genVars, campaignVars, delivered>>

\* "Send Campaign": the batch is selected and send_automated_emails entered;
\* with no unsent lead the handler only shows a notice
SendCampaignClick ==
    /\ pc = "idle"
    /\ leads_db # <<>>
    /\ LET unsent == unsent_leads(get_leads_from_db(leads_db, ListLimit))
       IN  IF unsent = <<>>
           THEN UNCHANGED campaignVars
           ELSE /\ pc' = "sending"
                /\ batch' = unsent
                /\ pos' = 0
                /\ sent_count' = 0
                /\ attempts' = <<>>
                /\ elapsed' = 0
    /\ UNCHANGED <<genVars, leads_db, next_id, clock, delivered>>

\* one iteration of the for loop whose try block runs to its end: the email
\* is written out, the row updated, sent_count incremented, and the loop
\* sleeps
SendSucceeds ==
    /\ pc = "sending"
    /\ pos < Len(batch)
    /\ LET lead == batch[pos + 1]
       IN  /\ attempts' = Append(attempts,
                                 [id |-> lead.id, email |-> lead.email,
                                  ok |-> TRUE, at |-> elapsed])
           /\ leads_db' = UpdateEmailSent(leads_db, lead.email)
           /\ delivered' = Append(delivered,
                                  [id |-> lead.id, email |-> lead.email])
    /\ sent_count' = sent_count + 1
    /\ elapsed' = elapsed + RateLimitDelay
    /\ pos' = pos + 1
    /\ UNCHANGED <<genVars, next_id, clock, pc, batch>>

\* one iteration whose try block raises while the email is written out or the
\* row updated: the except clause reports it and the loop goes on
SendFails ==
    /\ pc = "sending"
    /\ pos < Len(batch)
    /\ LET lead == batch[pos + 1]
       IN  attempts' = Append(attempts,
                              [id |-> lead.id, email |-> lead.email,
                               ok |-> FALSE, at |-> elapsed])
    /\ pos' = pos + 1
    /\ UNCHANGED <<genVars, leads_db, next_id, clock, pc, batch, sent_count,
                   elapsed, delivered>>

\* return sent_count
SendReturns ==
    /\ pc = "sending"
    /\ pos = Len(batch)
    /\ pc' = "done"
    /\ UNCHANGED <<genVars, leads_db, next_id, clock, batch, pos, sent_count,
                   attempts, elapsed, delivered>>

\* the script run that handled the click ends; its locals are gone
RunEnds ==
    /\ pc = "done"
    /\ pc' = "idle"
    /\ batch' = <<>>
    /\ pos' = 0
    /\ sent_count' = 0
    /\ attempts' = <<>>
    /\ elapsed' = 0
    /\ UNCHANGED <<genVars, leads_db, next_id, clock, delivered>>

\* "Clear All Leads": DELETE FROM leads
ClearAllLeads ==
    /\ pc = "idle"
    /\ leads_db # <<>>
    /\ leads_db' = <<>>
    /\ delivered' = <<>>
    /\ UNCHANGED <<genVars, next_id, clock, campaignVars>>

Init ==
    /\ request = NoRequest
    /\ reply = NoReply
    /\ StoreInit

Next ==
    \/ GenerateLeadsClick
    \/ SendCampaignClick
    \/ SendSucceeds
    \/ SendFails
    \/ SendReturns
    \/ RunEnds
    \/ ClearAllLeads

Spec == Init /\ [][Next]_vars

---------------------------------------------------------------------------
(* Properties of the lead store and the campaign runner, checked under Spec. *)

\* a stored record without its id: its email and attributes
Attributes(row) ==
    [ company_name      |-> row.company_name,
      email             |-> row.email,
      phone             |-> row.phone,
      website           |-> row.website,
      industry          |-> row.industry,
      location          |-> row.location,
      contact_person    |-> row.contact_person,
      generated_date    |-> row.generated_date,
      email_sent        |-> row.email_sent,
      email_opened      |-> row.email_opened,
      response_received |-> row.response_received ]

\* the stored records, each row counted, compared by email and attributes
StoredRecords(table) ==
    LET recs == {Attributes(table[i]) : i \in 1..Len(table)}
    IN  [r \in recs |->
            Cardinality({i \in 1..Len(table) : Attributes(table[i]) = r})]

\* lead sequences a caller can hand to save_leads_to_db in the current state
LeadSequences ==
    { generate_leads_from_api(
          industry, location, count,
          [kind |-> "no_key", emails |-> <<>>, bad |-> 0], clock).leads :
        industry \in StoreIndustries, location \in StoreLocations,
        count \in 0..MaxLeadCount }

\* C1 as stated: in every store state, for every lead sequence L, saving L
\* twice leaves the stored records as saving L once leaves them.
C1_AsStated ==
    \A L \in LeadSequences :
        LET once  == save_leads_to_db(leads_db, next_id, L)
            twice == save_leads_to_db(once.table, once.next_id, L)
        IN  StoredRecords(twice.table) = StoredRecords(once.table)

\* C2 as stated: the table never holds two rows with the same email.
C2_AsStated ==
    \A i, j \in 1..Len(leads_db) :
        i # j => leads_db[i].email # leads_db[j].email

\* the row of the table with the given id
RowOf(id) == leads_db[CHOOSE i \in 1..Len(leads_db) : leads_db[i].id = id]

\* C5 as stated: when send_automated_emails returns, every lead of the batch
\* was processed in input order, the leads whose send succeeded are marked
\* email_sent, the leads whose send failed are not, and sent_count is the
\* number of successes.
C5_AsStated ==
    pc = "done" =>
        /\ Len(attempts) = Len(batch)
        /\ \A i \in 1..Len(batch) : attempts[i].id = batch[i].id
        /\ sent_count = Cardinality({i \in 1..Len(attempts) : attempts[i].ok})
        /\ \A i \in 1..Len(batch) :
               RowOf(batch[i].id).email_sent = IF attempts[i].ok THEN 1 ELSE 0

C7_AsStated ==
    /\ \A i \in 1..Len(attempts) : attempts[i].id = batch[i].id
    /\ \A i \in 1..(Len(attempts) - 1) :
           attempts[i + 1].at - attempts[i].at >= RateLimitDelay

\* C10 as stated: every lead of a batch had email_sent = 0 when the batch was
\* selected, and no email address is sent to successfully twice unless the
\* table was cleared in between.
C10_AsStated ==
    /\ \A i \in 1..Len(batch) : batch[i].email_sent = 0
    /\ \A i, j \in 1..Len(delivered) :
           i # j => delivered[i].email # delivered[j].email

===========================================================================
